---- MODULE Spec2Model ----
(***************************************************************************)
(* A model of s3db: a document store kept in the key/prefix namespace of   *)
(* an S3 bucket.  Strings are sequences of atoms (indivisible pieces of    *)
(* text that contain no "/" and no "."), so that key construction, prefix  *)
(* matching, delimiter grouping, String.replace and String.split are       *)
(* computed as the code and the storage service compute them.              *)
(***************************************************************************)
EXTENDS Naturals, Integers, Sequences, FiniteSets, TLC

VARIABLES buckets, objects, handles, tasks, uuids

vars == <<buckets, objects, handles, tasks, uuids>>

-----------------------------------------------------------------------------
(* Bounds of the model *)

\* uuid() values drawn in one behaviour
MaxUuids == 1

\* uuid() values drawn in one behaviour of the specification of fresh ids
MaxFreshUuids == 2

\* files in one media list
MaxMedia == 2

-----------------------------------------------------------------------------
(* Strings *)

Slash == "/"

Dot == "."

\* the value of an unset field; `${undefined}` prints as "undefined"
Undefined == <<"undefined">>

EmptyString == <<>>

\* JavaScript truthiness of a string | undefined
Truthy(s) == s # Undefined /\ s # EmptyString

StartsWith(s, p) == Len(s) >= Len(p) /\ SubSeq(s, 1, Len(p)) = p

\* the suffix of s from position i on
Drop(s, i) == SubSeq(s, i, Len(s))

\* first position of atom a in s, 0 when absent
IndexOf(s, a) ==
    IF \E i \in 1..Len(s) : s[i] = a
    THEN CHOOSE i \in 1..Len(s) : s[i] = a /\ \A j \in 1..(i-1) : s[j] # a
    ELSE 0

\* first position at which pat occurs in s, 0 when it does not
FirstOccurrence(s, pat) ==
    LET at(i) == i + Len(pat) - 1 <= Len(s) /\ SubSeq(s, i, i + Len(pat) - 1) = pat
    IN IF \E i \in 1..(Len(s)+1) : at(i)
       THEN CHOOSE i \in 1..(Len(s)+1) : at(i) /\ \A j \in 1..(i-1) : ~at(j)
       ELSE 0

\* String.prototype.replace(pat, ""): the first occurrence of pat removed
ReplaceFirst(s, pat) ==
    LET i == FirstOccurrence(s, pat)
    IN IF i = 0 THEN s ELSE SubSeq(s, 1, i-1) \o Drop(s, i + Len(pat))

\* s.split(sep)[0]
SplitFirst(s, sep) ==
    LET i == IndexOf(s, sep) IN IF i = 0 THEN s ELSE SubSeq(s, 1, i-1)

\* s.split(sep)[1], undefined when s holds no sep
SplitSecond(s, sep) ==
    LET i == IndexOf(s, sep)
    IN IF i = 0 THEN Undefined ELSE SplitFirst(Drop(s, i+1), sep)

\* a set as a sequence, in some fixed order
RECURSIVE SetToSeq(_)
SetToSeq(S) ==
    IF S = {} THEN <<>>
    ELSE LET x == CHOOSE x \in S : TRUE IN <<x>> \o SetToSeq(S \ {x})

Range(s) == {s[i] : i \in 1..Len(s)}

NoDuplicates(s) == \A i, j \in 1..Len(s) : s[i] = s[j] => i = j

-----------------------------------------------------------------------------
(* Documents and JSON *)

\* A document is a JavaScript object: its fields in insertion order, each
\* <<name, value>>; a value is a string or a number.
StrV(s) == [type |-> "string", val |-> s]

NumV(n) == [type |-> "number", val |-> n]

FieldNames(doc) == {doc[i][1] : i \in 1..Len(doc)}

\* "id" in document
HasId(doc) == "id" \in FieldNames(doc)

\* document.id
IdOf(doc) == (doc[CHOOSE i \in 1..Len(doc) : doc[i][1] = "id"][2]).val

\* { ...document, id }: an own field keeps its place and takes the new
\* value, a new field goes last
SpreadWithId(doc, id) ==
    IF HasId(doc)
    THEN [i \in 1..Len(doc) |-> IF doc[i][1] = "id" THEN <<"id", StrV(id)>> ELSE doc[i]]
    ELSE Append(doc, <<"id", StrV(id)>>)

\* a document as a mapping (deep equality ignores the order of the fields)
AsMap(doc) ==
    [f \in FieldNames(doc) |-> doc[CHOOSE i \in 1..Len(doc) : doc[i][1] = f][2]]

Quote == "\""

\* a line break and its indentation
Ws == "\n    "

Digits == 0..9

NumTokens == {ToString(n) : n \in Digits}

StringifyValue(v) ==
    IF v.type = "string" THEN <<Quote>> \o v.val \o <<Quote>>
    ELSE <<ToString(v.val)>>

RECURSIVE StringifyMembers(_, _)
StringifyMembers(doc, i) ==
    IF i > Len(doc) THEN <<>>
    ELSE <<Ws, Quote, doc[i][1], Quote, ":">> \o StringifyValue(doc[i][2])
         \o (IF i < Len(doc) THEN <<",">> ELSE <<>>)
         \o StringifyMembers(doc, i + 1)

\* JSON.stringify(doc, null, 4)
JsonStringify(doc) ==
    IF Len(doc) = 0 THEN <<"{", "}">>
    ELSE <<"{">> \o StringifyMembers(doc, 1) \o <<Ws, "}">>

ParseFail == [ok |-> FALSE, val |-> <<>>, next |-> 0]

RECURSIVE SkipWs(_, _)
SkipWs(toks, i) ==
    IF i <= Len(toks) /\ toks[i] = Ws THEN SkipWs(toks, i + 1) ELSE i

ParseValue(toks, i) ==
    IF i > Len(toks) THEN ParseFail
    ELSE IF toks[i] = Quote
    THEN LET rest == Drop(toks, i + 1)
             j == IndexOf(rest, Quote)
         IN IF j = 0 THEN ParseFail
            ELSE [ok |-> TRUE, val |-> StrV(SubSeq(rest, 1, j - 1)), next |-> i + j + 1]
    ELSE IF toks[i] \in NumTokens
    THEN [ok |-> TRUE,
          val |-> NumV(CHOOSE n \in Digits : ToString(n) = toks[i]),
          next |-> i + 1]
    ELSE ParseFail

\* the members of an object from position i on, after the fields in acc
RECURSIVE ParseMembers(_, _, _)
ParseMembers(toks, i, acc) ==
    LET k == SkipWs(toks, i) IN
    IF k + 3 > Len(toks) \/ toks[k] # Quote \/ toks[k+2] # Quote \/ toks[k+3] # ":"
    THEN ParseFail
    ELSE LET v == ParseValue(toks, SkipWs(toks, k + 4)) IN
         IF ~v.ok THEN ParseFail
         ELSE LET n == SkipWs(toks, v.next)
                  \* a repeated name keeps its place and takes the last value
                  name == toks[k+1]
                  acc2 == IF \E x \in 1..Len(acc) : acc[x][1] = name
                          THEN [x \in 1..Len(acc) |->
                                  IF acc[x][1] = name THEN <<name, v.val>> ELSE acc[x]]
                          ELSE Append(acc, <<name, v.val>>)
              IN IF n > Len(toks) THEN ParseFail
                 ELSE IF toks[n] = "," THEN ParseMembers(toks, n + 1, acc2)
                 ELSE IF toks[n] = "}" THEN [ok |-> TRUE, val |-> acc2, next |-> n + 1]
                 ELSE ParseFail

\* JSON.parse(text): [ok, val]; ok is FALSE where JSON.parse throws SyntaxError
JsonParse(toks) ==
    LET i == SkipWs(toks, 1)
        r == IF i > Len(toks) THEN ParseFail
             ELSE IF toks[i] = "{"
             THEN LET k == SkipWs(toks, i + 1) IN
                  IF k <= Len(toks) /\ toks[k] = "}"
                  THEN [ok |-> TRUE, val |-> <<>>, next |-> k + 1]
                  ELSE ParseMembers(toks, i + 1, <<>>)
             ELSE ParseValue(toks, i)
    IN IF r.ok /\ SkipWs(toks, r.next) = Len(toks) + 1
       THEN [ok |-> TRUE, val |-> r.val]
       ELSE [ok |-> FALSE, val |-> <<>>]

-----------------------------------------------------------------------------
(* The storage service: buckets, and in each bucket objects by key *)

Keys(bucket) == {bk[2] : bk \in {x \in DOMAIN objects : x[1] = bucket}}

\* the keys of a bucket that begin with prefix, as the service lists them
Matching(bucket, prefix) == {k \in Keys(bucket) : StartsWith(k, prefix)}

\* the common prefix a key is rolled up into: the prefix and what follows it
\* up to and including the first delimiter; <<>> for a key with no
\* delimiter after the prefix
RollUp(k, prefix) ==
    LET rest == Drop(k, Len(prefix) + 1)
        i == IndexOf(rest, Slash)
    IN IF i = 0 THEN <<>> ELSE prefix \o SubSeq(rest, 1, i)

\* a section of a listing response: an empty one is left out of the
\* response when omitEmpty
Section(S, omitEmpty) ==
    [present |-> ~(S = {} /\ omitEmpty), items |-> SetToSeq(S)]

\* as ListObjectsV2, but called without the delimiter: nothing is rolled up
ListObjectsV2_NoDelimiter(bucket, prefix, omitEmpty) ==
    [Contents |-> Section(Matching(bucket, prefix), omitEmpty),
     CommonPrefixes |-> Section({}, omitEmpty)]

\* listObjectsV2({Bucket, Prefix, Delimiter: "/"})
ListObjectsV2(bucket, prefix, omitEmpty) ==
    LET m == Matching(bucket, prefix) IN
    [Contents |-> Section({k \in m : RollUp(k, prefix) = <<>>}, omitEmpty),
     CommonPrefixes |-> Section({RollUp(k, prefix) : k \in m} \ {<<>>}, omitEmpty)]

\* as ListObjects, but the prefix is not applied: every key of the bucket
ListObjects_NoPrefix(bucket, prefix, omitEmpty) ==
    [Contents |-> Section(Keys(bucket), omitEmpty)]

\* listObjects({Bucket, Prefix}): no delimiter, every key under the prefix
ListObjects(bucket, prefix, omitEmpty) ==
    [Contents |-> Section(Matching(bucket, prefix), omitEmpty)]

\* putObject({Bucket, Key, Body, ContentType}): creates or overwrites
PutObject(objs, bucket, key, body, ctype) ==
    (<<bucket, key>> :> [body |-> body, contentType |-> ctype]) @@ objs

\* deleteObjects({Bucket, Delete: {Objects}}): a missing key is no error
DeleteObjects(objs, bucket, keys) ==
    [bk \in DOMAIN objs \ {<<bucket, k>> : k \in keys} |-> objs[bk]]

-----------------------------------------------------------------------------
(* The prefix lister *)

Failed(msg) == [ok |-> FALSE, err |-> msg, folderNames |-> <<>>, objects |-> <<>>]

\* matchFolders.add(x) for every x of a sequence: a Set keeps the first
RECURSIVE AddAll(_, _)
AddAll(xs, acc) ==
    IF xs = <<>> THEN acc
    ELSE AddAll(Tail(xs), IF Head(xs) \in Range(acc) THEN acc ELSE Append(acc, Head(xs)))

\* as FolderName, but the queried prefix is not stripped
FolderName_NotStripped(commonPrefix, prefix) == SplitFirst(commonPrefix, Slash)

\* as FolderName, but the delimiter that ends the common prefix is kept
FolderName_KeepsDelimiter(commonPrefix, prefix) ==
    IF StartsWith(commonPrefix, prefix) /\ prefix # <<"undefined">>
    THEN SubSeq(commonPrefix, Len(prefix) + 1, Len(commonPrefix))
    ELSE commonPrefix

\* the folder name the lister reports for one common prefix
FolderName(commonPrefix, prefix) ==
    SplitFirst(ReplaceFirst(commonPrefix, IF Truthy(prefix) THEN prefix ELSE EmptyString),
               Slash)

\* as getDBEntriesResult, but a response without a section is an error
getDBEntriesResult_Strict(variant, prefix, result) ==
    IF ~result.Contents.present THEN Failed("Invalid listObjectsV2 contents")
    ELSE IF ~result.CommonPrefixes.present
    THEN Failed("Invalid listObjectsV2 commonPrefix")
    ELSE [ok |-> TRUE, err |-> "",
          folderNames |->
              LET ps == SelectSeq(result.CommonPrefixes.items, LAMBDA x : x # <<>>)
              IN AddAll([i \in 1..Len(ps) |-> FolderName(ps[i], prefix)], <<>>),
          objects |-> SelectSeq(result.Contents.items, LAMBDA k : k # <<>>)]

\* getDBEntries, from the listing response on.  prefix is Undefined for the
\* bucket root.
getDBEntriesResult(variant, prefix, result) ==
    IF variant = "constructor"
    THEN IF ~result.Contents.present THEN Failed("Invalid listObjectsV2 contents")
         ELSE IF ~result.CommonPrefixes.present
         THEN Failed("Invalid listObjectsV2 commonPrefix")
         ELSE [ok |-> TRUE, err |-> "",
               folderNames |-> SelectSeq(result.CommonPrefixes.items, LAMBDA p : p # <<>>),
               objects |-> SelectSeq(result.Contents.items, LAMBDA k : k # <<>>)]
    ELSE [ok |-> TRUE, err |-> "",
          folderNames |->
              IF result.CommonPrefixes.present
              THEN LET ps == SelectSeq(result.CommonPrefixes.items, LAMBDA x : x # <<>>)
                   IN AddAll([i \in 1..Len(ps) |-> FolderName(ps[i], prefix)], <<>>)
              ELSE <<>>,
          objects |->
              IF result.Contents.present
              THEN SelectSeq(result.Contents.items, LAMBDA k : k # <<>>)
              ELSE <<>>]

-----------------------------------------------------------------------------
(* Inputs *)

\* the bucket the callers name, and one that other software owns
BucketNames == {<<"b1">>}

OtherBuckets == {<<"b0">>}

CollectionNames == {<<"c1">>}

DataJson == <<"data", Dot, "json">>

\* ids a caller can make up: a plain one and one that holds the delimiter
UserIds == {<<"a">>, <<"a", Slash, "b">>}

\* as Uuid, but every call returns the same value
Uuid_Same(n) == <<"uuid", "1">>

\* the n-th value uuid() returns: no two calls return the same value, and
\* no caller makes one up before it was returned
Uuid(n) == <<"uuid", ToString(n)>>

\* ids a caller knows of: its own and those the store has returned
KnownIds == UserIds \cup {Uuid(n) : n \in 1..uuids}

\* an id written as its folder: it ends with the delimiter
FolderIds == {<<"a", Slash>>}

DocWithoutId == << <<"title", StrV(<<"A">>)>> >>

DocWithEmptyId == << <<"title", StrV(<<"A">>)>>, <<"id", StrV(EmptyString)>> >>

\* a document that carries the id
DocWithId(id) == << <<"id", StrV(id)>>, <<"value", NumV(1)>> >>

\* another one, with a field the first has not and without one it has
OtherDocWithId(id) == << <<"title", StrV(<<"A">>)>>, <<"id", StrV(id)>> >>

Documents ==
    {DocWithoutId, DocWithEmptyId} \cup {DocWithId(id) : id \in KnownIds}
        \cup {OtherDocWithId(id) : id \in {<<"a">>}}

\* a File: its name and its bytes
Files == {[name |-> <<"f", Dot, "png">>, content |-> <<"bytes">>],
          [name |-> DataJson, content |-> <<"bytes">>]}

\* the media lists of a call: files of different names, in some order
MediaLists == {SetToSeq(F) : F \in {G \in SUBSET Files : Cardinality(G) <= MaxMedia}}

MediaNameLists == {SetToSeq(N) : N \in SUBSET {f.name : f \in Files} \ {{}}}

-----------------------------------------------------------------------------
(* State *)

Handles == {1, 2}

Tasks == {1, 2}

NoHandle ==
    [variant |-> "none", bucketName |-> Undefined, collectionName |-> Undefined,
     exposed |-> FALSE]

NoArgs ==
    [document |-> <<>>, id |-> <<>>, media |-> <<>>, mediaNames |-> <<>>,
     bucketName |-> <<>>, collectionName |-> <<>>]

NoRequest == [kind |-> "none"]

\* a call: the operation, the handle it runs on, where it stands, its
\* arguments and locals, the request it awaits, the media writes it awaits
\* and those that have failed,
\* every request it has issued, how its promise settled, and (for the
\* statements about what a call changes) the storage as the call found it
Idle ==
    [op |-> "idle", h |-> 0, pc |-> "done", args |-> NoArgs, id |-> <<>>,
     listed |-> <<>>, req |-> NoRequest, pending |-> {}, failed |-> {}, reqs |-> <<>>,
     out |-> [status |-> "none", val |-> <<>>],
     before |-> [buckets |-> {}, objects |-> <<>>, uuids |-> 0]]

Init ==
    /\ buckets = OtherBuckets
    /\ objects = <<>>
    /\ handles = [h \in Handles |-> NoHandle]
    /\ tasks = [t \in Tasks |-> Idle]
    /\ uuids = 0

Finished(task) == task.pc = "done" /\ task.pending = {}

\* a call starts in the first slot that holds none
FreeSlot(t) == tasks[t] = Idle /\ \A u \in Tasks : u < t => tasks[u] # Idle

StartIn(t, task) == [tasks EXCEPT ![t] = task]

\* the caller awaits each call before making the next; the verification a
\* constructor starts runs in the background
Sequential == \A u \in Tasks : tasks[u].op \in {"idle", "constructor"}

Call(op, h, a) ==
    [Idle EXCEPT !.op = op, !.h = h, !.args = a, !.out.status = "pending",
                 !.before = [buckets |-> buckets, objects |-> objects, uuids |-> uuids]]

\* the promise rejects with msg
Reject(task, msg) ==
    [task EXCEPT !.pc = "done", !.req = NoRequest, !.out = [status |-> msg, val |-> <<>>]]

Resolve(task, val) ==
    [task EXCEPT !.pc = "done", !.req = NoRequest, !.out = [status |-> "ok", val |-> val]]

\* the call issues a request and awaits the response at pc
Await(task, pc, req) ==
    [task EXCEPT !.pc = pc, !.req = req, !.reqs = Append(@, req)]

-----------------------------------------------------------------------------
(* Initialization: the factory S3db.initialize, and the variant whose      *)
(* constructor starts the verification without awaiting it                 *)

\* buckets.find(({ Name }) => Name === bucketName), as a truth value
IsBucketInS3(Buckets, bucketName) == \E i \in 1..Len(Buckets) : Buckets[i] = bucketName

\* as IsCollectionInBucket, but no name is ever found
IsCollectionInBucket_Never(collectionNames, collectionName) == FALSE

\* collectionNames.find((name) => name === collectionName), as a truth value
IsCollectionInBucket(collectionNames, collectionName) ==
    \E i \in 1..Len(collectionNames) : collectionNames[i] = collectionName

\* getDBCollectionNames() on a handle whose bucket is bucketName: getDBEntries
\* checks the bucket and lists the bucket root
getDBCollectionNames(task, bucketName) ==
    IF ~Truthy(bucketName) THEN Reject(task, "Invalid bucketName")
    ELSE Await(task, "listRoot",
               [kind |-> "listObjectsV2", bucket |-> bucketName, prefix |-> Undefined])

\* as BindCollection, but the handle is returned without its collection
BindCollection_NotBound(hd, collectionName) == [hd EXCEPT !.exposed = TRUE]

\* db.collectionName = collectionName, the last step of the verification:
\* initialize returns the handle next
BindCollection(hd, collectionName) ==
    [hd EXCEPT !.collectionName = collectionName, !.exposed = TRUE]

LowestFree(h) ==
    /\ handles[h].variant = "none"
    /\ \A g \in Handles : g < h => handles[g].variant # "none"

\* S3db.initialize(args), up to its first await
initialize(t, h, bucketName, collectionName) ==
    /\ FreeSlot(t)
    /\ LowestFree(h)
    /\ handles' = [handles EXCEPT ![h] = [NoHandle EXCEPT !.variant = "factory"]]
    /\ tasks' = StartIn(t, Await(Call("initialize", h,
                                      [NoArgs EXCEPT !.bucketName = bucketName,
                                                     !.collectionName = collectionName]),
                                 "listBuckets", [kind |-> "listBuckets"]))
    /\ UNCHANGED <<buckets, objects, uuids>>

\* new S3db(bucketName, collectionName): the handle is the caller's at once
constructor(t, h, bucketName, collectionName) ==
    /\ FreeSlot(t)
    /\ LowestFree(h)
    /\ handles' = [handles EXCEPT ![h] = [NoHandle EXCEPT !.variant = "constructor",
                                                           !.exposed = TRUE]]
    /\ tasks' = StartIn(t, Await(Call("constructor", h,
                                      [NoArgs EXCEPT !.bucketName = bucketName,
                                                     !.collectionName = collectionName]),
                                 "listBuckets", [kind |-> "listBuckets"]))
    /\ UNCHANGED <<buckets, objects, uuids>>

\* the bucket list arrives
ListBucketsDone(t) ==
    LET task == tasks[t]
        Buckets == SetToSeq(buckets)
        found == IsBucketInS3(Buckets, task.args.bucketName)
        seen == [task EXCEPT !.listed = Buckets]
    IN
    /\ task.pc = "listBuckets"
    /\ IF task.op = "initialize" /\ ~found
       THEN /\ tasks' = [tasks EXCEPT ![t] =
                   Await(seen, "createBucket",
                         [kind |-> "createBucket", bucket |-> task.args.bucketName])]
            /\ UNCHANGED handles
       ELSE IF task.op = "constructor" /\ ~found
       THEN /\ tasks' = [tasks EXCEPT ![t] = Reject(seen, "Invalid bucketName in S3")]
            /\ UNCHANGED handles
       ELSE /\ handles' = [handles EXCEPT ![task.h].bucketName = task.args.bucketName]
            /\ tasks' = [tasks EXCEPT ![t] = getDBCollectionNames(seen, task.args.bucketName)]
    /\ UNCHANGED <<buckets, objects, uuids>>

\* the bucket is created
CreateBucketDone(t) ==
    LET task == tasks[t] IN
    /\ task.pc = "createBucket"
    /\ buckets' = buckets \cup {task.req.bucket}
    /\ handles' = [handles EXCEPT ![task.h].bucketName = task.args.bucketName]
    /\ tasks' = [tasks EXCEPT ![t] = getDBCollectionNames(task, task.args.bucketName)]
    /\ UNCHANGED <<objects, uuids>>

\* the listing of the bucket root arrives
ListRootDone(t, omitEmpty) ==
    LET task == tasks[t]
        result == ListObjectsV2(task.req.bucket, EmptyString, omitEmpty)
        entries == getDBEntriesResult(handles[task.h].variant, task.req.prefix, result)
        seen == [task EXCEPT !.listed = entries.folderNames]
        found == IsCollectionInBucket(entries.folderNames, task.args.collectionName)
    IN
    /\ task.pc = "listRoot"
    /\ IF ~entries.ok
       THEN /\ tasks' = [tasks EXCEPT ![t] = Reject(task, entries.err)]
            /\ UNCHANGED handles
       ELSE IF task.op = "initialize" /\ ~found
       THEN /\ tasks' = [tasks EXCEPT ![t] =
                   Await(seen, "putCollection",
                         [kind |-> "putObject", bucket |-> handles[task.h].bucketName,
                          key |-> Append(task.args.collectionName, Slash),
                          body |-> <<>>, contentType |-> Undefined])]
            /\ UNCHANGED handles
       ELSE IF task.op = "constructor" /\ ~found
       THEN /\ tasks' = [tasks EXCEPT ![t] =
                   Reject(seen, "Invalid collection in current bucket")]
            /\ UNCHANGED handles
       ELSE /\ handles' = [handles EXCEPT ![task.h] =
                                BindCollection(@, task.args.collectionName)]
            /\ tasks' = [tasks EXCEPT ![t] = Resolve(seen, task.h)]
    /\ UNCHANGED <<buckets, objects, uuids>>

\* the collection's placeholder is written
PutCollectionDone(t) ==
    LET task == tasks[t] IN
    /\ task.pc = "putCollection"
    /\ objects' = PutObject(objects, task.req.bucket, task.req.key, task.req.body,
                            task.req.contentType)
    /\ handles' = [handles EXCEPT ![task.h] =
                        BindCollection(@, task.args.collectionName)]
    /\ tasks' = [tasks EXCEPT ![t] = Resolve(task, task.h)]
    /\ UNCHANGED <<buckets, uuids>>

\* the request a call awaits fails at the storage service, and the call
\* with it; a handle that initialize has not returned is lost
StorageFailure(t) ==
    LET task == tasks[t] IN
    /\ task.pc # "done"
    /\ task.pc # "media"
    /\ tasks' = [tasks EXCEPT ![t] = Reject(task, "StorageError")]
    /\ handles' = IF task.op = "initialize"
                  THEN [handles EXCEPT ![task.h] = NoHandle]
                  ELSE handles
    /\ UNCHANGED <<buckets, objects, uuids>>

-----------------------------------------------------------------------------
(* The public operations, each up to its first await *)

\* `${this.collectionName}/${keyInCollection}`
CollectionKey(hd, keyInCollection) == hd.collectionName \o <<Slash>> \o keyInCollection

\* getDBEntries(prefix), up to its await
getDBEntries(task, hd, prefix, pc) ==
    IF ~Truthy(hd.bucketName) THEN Reject(task, "Invalid bucketName")
    ELSE Await(task, pc,
               [kind |-> "listObjectsV2", bucket |-> hd.bucketName, prefix |-> prefix])

getDBCollectionEntries(task, hd, prefixInCollection, pc) ==
    IF ~Truthy(hd.collectionName) THEN Reject(task, "Invalid collectionName")
    ELSE getDBEntries(task, hd, CollectionKey(hd, prefixInCollection), pc)

\* getDBEntry(Key), up to its await
getDBEntry(task, hd, Key) ==
    IF ~Truthy(hd.bucketName) THEN Reject(task, "Invalid bucketName")
    ELSE Await(task, "getObject",
               [kind |-> "getObject", bucket |-> hd.bucketName, key |-> Key])

getDBCollectionEntry(task, hd, keyInCollection) ==
    IF ~Truthy(hd.collectionName) THEN Reject(task, "Invalid collectionName")
    ELSE getDBEntry(task, hd, CollectionKey(hd, keyInCollection))

\* uploadDBCollectionEntry(keyInCollection, Body), up to its await
uploadDBCollectionEntry(task, hd, keyInCollection, Body, pc) ==
    IF ~Truthy(hd.bucketName) THEN Reject(task, "Invalid bucketName")
    ELSE IF ~Truthy(hd.collectionName) THEN Reject(task, "Invalid collectionName")
    ELSE Await(task, pc,
               [kind |-> "putObject", bucket |-> hd.bucketName,
                key |-> CollectionKey(hd, keyInCollection),
                body |-> Body, contentType |-> Undefined])

\* `image/${file.name.split(".")[1]}`
MediaContentType(file) == <<"image", Slash>> \o SplitSecond(file.name, Dot)

\* as MediaPut, but the file is written where the document body is
MediaPut_OverBody(hd, keyInCollection, file) ==
    [kind |-> "putObject", bucket |-> hd.bucketName,
     key |-> hd.collectionName \o <<Slash>> \o SplitFirst(keyInCollection, Slash)
                \o <<Slash, "data", Dot, "json">>,
     body |-> file.content, contentType |-> <<"image", Slash>> \o SplitSecond(file.name, Dot)]

\* the request of uploadDBCollectionMedia(keyInCollection, file)
MediaPut(hd, keyInCollection, file) ==
    [kind |-> "putObject", bucket |-> hd.bucketName,
     key |-> CollectionKey(hd, keyInCollection),
     body |-> file.content, contentType |-> MediaContentType(file)]

\* as UsesOwnId, but every upload is given a new id
UsesOwnId_Never(variant, document) == FALSE

\* whether uploadDBDocument takes the document's own id
UsesOwnId(variant, document) ==
    IF variant = "constructor" THEN HasId(document)
    ELSE HasId(document) /\ Truthy(IdOf(document))

DataKey(id) == id \o <<Slash>> \o DataJson

\* as uploadDBDocumentData, but the document is written as the caller gave it
uploadDBDocumentData_WithoutId(task, hd) ==
    uploadDBCollectionEntry(task, hd, DataKey(task.id),
                            JsonStringify(task.args.document), "putData")

\* the write of the document body that uploadDBDocument ends with
uploadDBDocumentData(task, hd) ==
    uploadDBCollectionEntry(task, hd, DataKey(task.id),
                            JsonStringify(SpreadWithId(task.args.document, task.id)),
                            "putData")

\* as uploadDBDocumentStart, but uploadDBDocumentWithMedia starts with the media
uploadDBDocumentStart_MediaFirst(task, hd, uuid) ==
    LET id == IF UsesOwnId(hd.variant, task.args.document)
              THEN IdOf(task.args.document) ELSE uuid
    IN IF task.op = "uploadDBDocumentWithMedia" /\ task.args.media # <<>>
       THEN [task EXCEPT !.id = id, !.pc = "media",
                         !.listed = [i \in 1..Len(task.args.media) |->
                                        [kind |-> "putObject", bucket |-> hd.bucketName,
                                         key |-> hd.collectionName \o <<Slash>> \o id
                                                    \o <<Slash>> \o task.args.media[i].name,
                                         body |-> task.args.media[i].content,
                                         contentType |-> <<"image">>]],
                         !.pending = 1..Len(task.args.media),
                         !.reqs = [i \in 1..Len(task.args.media) |->
                                      [kind |-> "putObject", bucket |-> hd.bucketName,
                                       key |-> hd.collectionName \o <<Slash>> \o id
                                                  \o <<Slash>> \o task.args.media[i].name,
                                       body |-> task.args.media[i].content,
                                       contentType |-> <<"image">>]]]
       ELSE uploadDBCollectionEntry([task EXCEPT !.id = id], hd, DataKey(id),
                                    JsonStringify(SpreadWithId(task.args.document, id)),
                                    "putData")

\* uploadDBDocument(document), up to its first await; uuid is the value
\* uuid() returns
uploadDBDocumentStart(task, hd, uuid) ==
    IF UsesOwnId(hd.variant, task.args.document)
    THEN uploadDBDocumentData([task EXCEPT !.id = IdOf(task.args.document)], hd)
    ELSE uploadDBCollectionEntry([task EXCEPT !.id = uuid], hd,
                                 Append(uuid, Slash), <<>>, "putFolder")

\* what the call returns once its media are written: uploadDBDocumentMedia
\* nothing, uploadDBDocumentWithMedia the id
MediaResult(task) == IF task.op = "uploadDBDocumentWithMedia" THEN task.id ELSE <<>>

\* uploadDBDocumentMedia(id, media), up to its await: one write per file,
\* all issued at once; val is what the call returns when they have succeeded
uploadDBDocumentMediaStart(task, hd, id, media) ==
    IF media = <<>> THEN Resolve(task, MediaResult(task))
    ELSE IF ~Truthy(hd.bucketName) THEN Reject(task, "Invalid bucketName")
    ELSE IF ~Truthy(hd.collectionName) THEN Reject(task, "Invalid collectionName")
    ELSE LET puts == [i \in 1..Len(media) |->
                         MediaPut(hd, id \o <<Slash>> \o media[i].name, media[i])]
         IN [task EXCEPT !.pc = "media", !.req = NoRequest, !.listed = puts,
                         !.pending = 1..Len(media), !.reqs = @ \o puts]

Start(t, h, task) ==
    /\ FreeSlot(t)
    /\ handles[h].exposed
    /\ tasks' = StartIn(t, task)
    /\ UNCHANGED <<buckets, objects, handles>>

getDBDocumentIds(t, h) ==
    LET hd == handles[h]
        task == Call("getDBDocumentIds", h, NoArgs)
    IN
    /\ Start(t, h, IF ~Truthy(hd.collectionName) THEN Reject(task, "Invalid collectionName")
                   ELSE getDBEntries(task, hd, Append(hd.collectionName, Slash), "listIds"))
    /\ UNCHANGED uuids

getDBDocumentData(t, h, id) ==
    /\ Start(t, h, getDBCollectionEntry(Call("getDBDocumentData", h, [NoArgs EXCEPT !.id = id]),
                                        handles[h], DataKey(id)))
    /\ UNCHANGED uuids

getDBDocumentMedia(t, h, id) ==
    /\ Start(t, h, getDBCollectionEntries(
                       Call("getDBDocumentMedia", h, [NoArgs EXCEPT !.id = id]),
                       handles[h], id, "listMedia"))
    /\ UNCHANGED uuids

\* getSignedUrl signs locally: no request goes to the storage service
getDBDocumentUrl(t, h, id) ==
    LET hd == handles[h]
        task == Call("getDBDocumentUrl", h, [NoArgs EXCEPT !.id = id])
    IN
    /\ Start(t, h, IF ~Truthy(hd.bucketName) THEN Reject(task, "Invalid bucketName")
                   ELSE Resolve(task, [signed |-> "GetObject", bucket |-> hd.bucketName,
                                       key |-> CollectionKey(hd, DataKey(id))]))
    /\ UNCHANGED uuids

\* the uuid a call of uploadDBDocument draws counts once the call uses it
DrawUuid(variant, document, task) ==
    uuids' = IF ~UsesOwnId(variant, document) /\ task.pc # "done"
            THEN uuids + 1 ELSE uuids

\* a behaviour draws at most max values from uuid()
UuidsLeft(h, document, max) == UsesOwnId(handles[h].variant, document) \/ uuids < max

uploadDBDocument(t, h, document) ==
    LET hd == handles[h]
        task == uploadDBDocumentStart(
                    Call("uploadDBDocument", h, [NoArgs EXCEPT !.document = document]),
                    hd, Uuid(uuids + 1))
    IN
    /\ Start(t, h, task)
    /\ DrawUuid(hd.variant, document, task)

uploadDBDocumentMedia(t, h, id, media) ==
    /\ Start(t, h, uploadDBDocumentMediaStart(
                       Call("uploadDBDocumentMedia", h,
                            [NoArgs EXCEPT !.id = id, !.media = media]),
                       handles[h], id, media))
    /\ UNCHANGED uuids

uploadDBDocumentWithMedia(t, h, document, media) ==
    LET hd == handles[h]
        call == Call("uploadDBDocumentWithMedia", h,
                     [NoArgs EXCEPT !.document = document, !.media = media])
        task == IF ~Truthy(hd.collectionName) THEN Reject(call, "Invalid collectionName")
                ELSE uploadDBDocumentStart(call, hd, Uuid(uuids + 1))
    IN
    /\ Start(t, h, task)
    /\ DrawUuid(hd.variant, document, task)

deleteDBDocumentById(t, h, id) ==
    LET hd == handles[h]
        task == Call("deleteDBDocumentById", h, [NoArgs EXCEPT !.id = id])
    IN
    /\ Start(t, h, IF ~Truthy(hd.bucketName) THEN Reject(task, "Invalid bucketName")
                   ELSE IF ~Truthy(hd.collectionName)
                   THEN Reject(task, "Invalid collectionName")
                   ELSE Await(task, "listObjects",
                              [kind |-> "listObjects", bucket |-> hd.bucketName,
                               prefix |-> CollectionKey(hd, Append(id, Slash))]))
    /\ UNCHANGED uuids

\* as MediaKeys, but the document body is deleted with the media
MediaKeys_WithBody(hd, id, mediaNames) ==
    Append([i \in 1..Len(mediaNames) |->
               hd.collectionName \o <<Slash>> \o id \o <<Slash>> \o mediaNames[i]],
           hd.collectionName \o <<Slash>> \o id \o <<Slash, "data", Dot, "json">>)

\* mediaNames.map((mediaName) => ({Key: `${collectionName}/${id}/${mediaName}`}))
MediaKeys(hd, id, mediaNames) ==
    [i \in 1..Len(mediaNames) |-> CollectionKey(hd, id \o <<Slash>> \o mediaNames[i])]

deleteDBDocumentMedia(t, h, id, mediaNames) ==
    LET hd == handles[h]
        task == Call("deleteDBDocumentMedia", h,
                     [NoArgs EXCEPT !.id = id, !.mediaNames = mediaNames])
    IN
    /\ Start(t, h, IF ~Truthy(hd.bucketName) THEN Reject(task, "Invalid bucketName")
                   ELSE IF ~Truthy(hd.collectionName)
                   THEN Reject(task, "Invalid collectionName")
                   ELSE Await(task, "deleteObjects",
                              [kind |-> "deleteObjects", bucket |-> hd.bucketName,
                               keys |-> MediaKeys(hd, id, mediaNames)]))
    /\ UNCHANGED uuids

-----------------------------------------------------------------------------
(* The operations, from each response on *)

Settle(task, outcome) ==
    IF outcome.status = "ok" THEN Resolve(task, outcome.val)
    ELSE Reject(task, outcome.status)

\* getDBDocumentIds from the listing on: the folder names under
\* `${collectionName}/`
getDBDocumentIdsResult(variant, bucket, prefix, omitEmpty) ==
    LET entries == getDBEntriesResult(variant, prefix,
                                      ListObjectsV2(bucket, prefix, omitEmpty))
    IN IF entries.ok THEN [status |-> "ok", val |-> entries.folderNames]
       ELSE [status |-> entries.err, val |-> <<>>]

ListIdsDone(t, omitEmpty) ==
    LET task == tasks[t] IN
    /\ task.pc = "listIds"
    /\ tasks' = [tasks EXCEPT ![t] =
                    Settle(task, getDBDocumentIdsResult(handles[task.h].variant,
                                     task.req.bucket, task.req.prefix, omitEmpty))]
    /\ UNCHANGED <<buckets, objects, handles, uuids>>

\* .objects.filter(({ name }) => name !== "data.json")
MediaOf(entries) == SelectSeq(entries.objects, LAMBDA name : name # DataJson)

\* getDBDocumentMedia from the listing on
getDBDocumentMediaResult(variant, bucket, prefix, omitEmpty) ==
    LET entries == getDBEntriesResult(variant, prefix,
                                      ListObjectsV2(bucket, prefix, omitEmpty))
    IN IF entries.ok THEN [status |-> "ok", val |-> MediaOf(entries)]
       ELSE [status |-> entries.err, val |-> <<>>]

ListMediaDone(t, omitEmpty) ==
    LET task == tasks[t] IN
    /\ task.pc = "listMedia"
    /\ tasks' = [tasks EXCEPT ![t] =
                    Settle(task, getDBDocumentMediaResult(handles[task.h].variant,
                                     task.req.bucket, task.req.prefix, omitEmpty))]
    /\ UNCHANGED <<buckets, objects, handles, uuids>>

\* getDBEntry from the response on: the body read to its end and parsed.
\* The constructor variant hands the body stream itself to JSON.parse.
getDBEntryResult(variant, body) ==
    IF variant = "constructor" THEN [ok |-> FALSE, val |-> <<>>]
    ELSE JsonParse(body)

\* getObject({Bucket, Key}) fails for a key that does not exist; the body
\* that arrives is parsed
getObjectResult(variant, objs, bucket, key) ==
    IF <<bucket, key>> \notin DOMAIN objs THEN [status |-> "NoSuchKey", val |-> <<>>]
    ELSE LET parsed == getDBEntryResult(variant, objs[<<bucket, key>>].body)
         IN IF parsed.ok THEN [status |-> "ok", val |-> parsed.val]
            ELSE [status |-> "SyntaxError", val |-> <<>>]

GetObjectDone(t) ==
    LET task == tasks[t] IN
    /\ task.pc = "getObject"
    /\ tasks' = [tasks EXCEPT ![t] =
                    Settle(task, getObjectResult(handles[task.h].variant, objects,
                                                 task.req.bucket, task.req.key))]
    /\ UNCHANGED <<buckets, objects, handles, uuids>>

\* the document's folder is written: the body is written next
PutFolderDone(t) ==
    LET task == tasks[t] IN
    /\ task.pc = "putFolder"
    /\ objects' = PutObject(objects, task.req.bucket, task.req.key, task.req.body,
                            task.req.contentType)
    /\ tasks' = [tasks EXCEPT ![t] = uploadDBDocumentData(task, handles[task.h])]
    /\ UNCHANGED <<buckets, handles, uuids>>

\* the document's body is written: uploadDBDocument returns the id,
\* uploadDBDocumentWithMedia goes on to the media
PutDataDone(t) ==
    LET task == tasks[t] IN
    /\ task.pc = "putData"
    /\ objects' = PutObject(objects, task.req.bucket, task.req.key, task.req.body,
                            task.req.contentType)
    /\ tasks' = [tasks EXCEPT ![t] =
                    IF task.op = "uploadDBDocumentWithMedia"
                    THEN uploadDBDocumentMediaStart([task EXCEPT !.req = NoRequest],
                                                    handles[task.h], task.id, task.args.media)
                    ELSE Resolve(task, task.id)]
    /\ UNCHANGED <<buckets, handles, uuids>>

\* one of the media writes succeeds; Promise.all resolves with the last
MediaPutDone(t, i) ==
    LET task == tasks[t]
        put == task.listed[i]
        left == task.pending \ {i}
    IN
    /\ i \in task.pending
    /\ objects' = PutObject(objects, put.bucket, put.key, put.body, put.contentType)
    /\ tasks' = [tasks EXCEPT ![t] =
                    IF left = {} /\ task.pc = "media"
                    THEN [Resolve(task, MediaResult(task)) EXCEPT !.pending = left]
                    ELSE [task EXCEPT !.pending = left]]
    /\ UNCHANGED <<buckets, handles, uuids>>

\* as MediaPutFailed, but the writes still awaited are given up
MediaPutFailed_OthersSkipped(t, i) ==
    /\ i \in tasks[t].pending
    /\ tasks' = [tasks EXCEPT ![t] =
                    [Reject(tasks[t], "StorageError") EXCEPT !.pending = {},
                                                            !.failed = @ \cup {i}]]
    /\ UNCHANGED <<buckets, objects, handles, uuids>>

\* one of the media writes fails; Promise.all rejects with the first failure
\* and the other writes go on
MediaPutFailed(t, i) ==
    LET task == tasks[t]
        left == task.pending \ {i}
    IN
    /\ i \in task.pending
    /\ tasks' = [tasks EXCEPT ![t] =
                    IF task.pc = "media"
                    THEN [Reject(task, "StorageError") EXCEPT !.pending = left,
                                                             !.failed = @ \cup {i}]
                    ELSE [task EXCEPT !.pending = left, !.failed = @ \cup {i}]]
    /\ UNCHANGED <<buckets, objects, handles, uuids>>

\* deleteDBDocumentById from the listing on: Contents?.map(...), the
\* invariant, the batched delete
\* as HasObjects, but an empty list passes
HasObjects_AnyList(Contents) == Contents.present

\* objects && objects.length > 0, for objects = Contents?.map(...)
HasObjects(Contents) == Contents.present /\ Len(Contents.items) > 0

\* as KeysToDelete, but only the first listed key is taken
KeysToDelete_FirstOnly(Contents) == <<Head(Contents.items)>>

\* Contents.map((obj) => ({ Key: obj.Key })): the keys to delete
KeysToDelete(Contents) == Contents.items

ListObjectsDone(t, omitEmpty) ==
    LET task == tasks[t]
        result == ListObjects(task.req.bucket, task.req.prefix, omitEmpty)
    IN
    /\ task.pc = "listObjects"
    /\ tasks' = [tasks EXCEPT ![t] =
                    IF ~HasObjects(result.Contents) THEN Reject(task, "No objects found")
                    ELSE Await([task EXCEPT !.listed = result.Contents.items],
                               "deleteObjects",
                               [kind |-> "deleteObjects", bucket |-> task.req.bucket,
                                keys |-> KeysToDelete(result.Contents)])]
    /\ UNCHANGED <<buckets, objects, handles, uuids>>

DeleteObjectsDone(t) ==
    LET task == tasks[t] IN
    /\ task.pc = "deleteObjects"
    /\ objects' = DeleteObjects(objects, task.req.bucket, Range(task.req.keys))
    /\ tasks' = [tasks EXCEPT ![t] = Resolve(task, <<>>)]
    /\ UNCHANGED <<buckets, handles, uuids>>

-----------------------------------------------------------------------------
(* Specifications *)

\* the caller has the outcome of a call that is over
Return(t) ==
    /\ tasks[t] # Idle
    /\ Finished(tasks[t])
    /\ tasks' = [tasks EXCEPT ![t] = Idle]
    /\ UNCHANGED <<buckets, objects, handles, uuids>>

Respond(t) ==
    \/ ListBucketsDone(t)
    \/ CreateBucketDone(t)
    \/ \E o \in BOOLEAN : ListRootDone(t, o)
    \/ PutCollectionDone(t)
    \/ \E o \in BOOLEAN : ListIdsDone(t, o)
    \/ \E o \in BOOLEAN : ListMediaDone(t, o)
    \/ GetObjectDone(t)
    \/ PutFolderDone(t)
    \/ PutDataDone(t)
    \/ \E i \in tasks[t].pending : MediaPutDone(t, i)
    \/ \E i \in tasks[t].pending : MediaPutFailed(t, i)
    \/ \E o \in BOOLEAN : ListObjectsDone(t, o)
    \/ DeleteObjectsDone(t)
    \/ StorageFailure(t)
    \/ Return(t)

\* the documents uploadDBDocumentWithMedia is called with
DocumentsWithMedia == {DocWithoutId, DocWithId(<<"a">>)}

\* one caller, who initializes one store and awaits each call before the next
Next ==
    \/ \E t \in Tasks, b \in BucketNames, c \in CollectionNames :
           Sequential /\ initialize(t, 1, b, c)
    \/ \E t \in Tasks : Sequential /\ getDBDocumentIds(t, 1)
    \/ \E t \in Tasks, id \in KnownIds : Sequential /\ getDBDocumentData(t, 1, id)
    \/ \E t \in Tasks, id \in KnownIds \cup FolderIds :
           Sequential /\ getDBDocumentMedia(t, 1, id)
    \/ \E t \in Tasks, id \in KnownIds : Sequential /\ getDBDocumentUrl(t, 1, id)
    \/ \E t \in Tasks, d \in Documents :
           Sequential /\ UuidsLeft(1, d, MaxUuids) /\ uploadDBDocument(t, 1, d)
    \/ \E t \in Tasks, id \in KnownIds, m \in MediaLists :
           Sequential /\ uploadDBDocumentMedia(t, 1, id, m)
    \/ \E t \in Tasks, d \in DocumentsWithMedia, m \in MediaLists :
           Sequential /\ UuidsLeft(1, d, MaxUuids) /\ uploadDBDocumentWithMedia(t, 1, d, m)
    \/ \E t \in Tasks, id \in KnownIds : Sequential /\ deleteDBDocumentById(t, 1, id)
    \/ \E t \in Tasks, id \in KnownIds, n \in MediaNameLists :
           Sequential /\ deleteDBDocumentMedia(t, 1, id, n)
    \/ \E t \in Tasks : Respond(t)

Spec == Init /\ [][Next]_vars

\* collection names for initialization: a plain one and a nested one
InitCollectionNames == CollectionNames \cup {<<"c1", Slash, "n">>}

InitIds == {<<"a">>}

InitDocuments == {DocWithoutId, DocWithId(<<"a">>)}

InitMediaLists == {m \in MediaLists : Len(m) = 0 \/ (Len(m) = 1 /\ m[1].name # DataJson)}

InitMediaNameLists == {n \in MediaNameLists : Len(n) = 1 /\ n[1] # DataJson}

\* one caller, who makes handles of both variants and calls the operations
\* on them, awaiting each call before the next; the verification that a
\* constructor starts runs beside the calls
NextInit ==
    \/ \E t \in Tasks, h \in Handles, b \in BucketNames, c \in InitCollectionNames :
           Sequential /\ initialize(t, h, b, c)
    \/ \E t \in Tasks, h \in Handles, b \in BucketNames, c \in CollectionNames :
           Sequential /\ constructor(t, h, b, c)
    \/ \E t \in Tasks, h \in Handles : Sequential /\ getDBDocumentIds(t, h)
    \/ \E t \in Tasks, h \in Handles, id \in InitIds :
           Sequential /\ getDBDocumentData(t, h, id)
    \/ \E t \in Tasks, h \in Handles, id \in InitIds :
           Sequential /\ getDBDocumentMedia(t, h, id)
    \/ \E t \in Tasks, h \in Handles, id \in InitIds :
           Sequential /\ getDBDocumentUrl(t, h, id)
    \/ \E t \in Tasks, h \in Handles, d \in InitDocuments :
           Sequential /\ UuidsLeft(h, d, MaxUuids) /\ uploadDBDocument(t, h, d)
    \/ \E t \in Tasks, h \in Handles, id \in InitIds, m \in InitMediaLists :
           Sequential /\ uploadDBDocumentMedia(t, h, id, m)
    \/ \E t \in Tasks, h \in Handles, d \in InitDocuments, m \in InitMediaLists :
           Sequential /\ UuidsLeft(h, d, MaxUuids) /\ uploadDBDocumentWithMedia(t, h, d, m)
    \/ \E t \in Tasks, h \in Handles, id \in InitIds :
           Sequential /\ deleteDBDocumentById(t, h, id)
    \/ \E t \in Tasks, h \in Handles, id \in InitIds, n \in InitMediaNameLists :
           Sequential /\ deleteDBDocumentMedia(t, h, id, n)
    \/ \E t \in Tasks : Respond(t)

SpecInit == Init /\ [][NextInit]_vars

-----------------------------------------------------------------------------
(* What the read operations return in the current state *)

\* the handle is bound to a bucket and a collection
Bound(h) ==
    /\ handles[h].exposed
    /\ Truthy(handles[h].bucketName)
    /\ Truthy(handles[h].collectionName)

IdsNow(h, omitEmpty) ==
    getDBDocumentIdsResult(handles[h].variant, handles[h].bucketName,
                           Append(handles[h].collectionName, Slash), omitEmpty)

DataNow(h, id) ==
    getObjectResult(handles[h].variant, objects, handles[h].bucketName,
                    CollectionKey(handles[h], DataKey(id)))

MediaNow(h, id, omitEmpty) ==
    getDBDocumentMediaResult(handles[h].variant, handles[h].bucketName,
                             CollectionKey(handles[h], id), omitEmpty)

\* a call of op is over and has succeeded
Succeeded(task, op) == task.op = op /\ Finished(task) /\ task.out.status = "ok"

\* the keys of objs in bucket under prefix
KeysUnder(objs, bucket, prefix) ==
    {bk[2] : bk \in {x \in DOMAIN objs : x[1] = bucket /\ StartsWith(x[2], prefix)}}

\* `${collectionName}/${id}/`
DocumentPrefix(h, id) == handles[h].collectionName \o <<Slash>> \o id \o <<Slash>>

\* every string X for which an object exists under `${collectionName}/X/`
IdsWithObjects(h) ==
    LET prefix == Append(handles[h].collectionName, Slash)
        rests == {Drop(k, Len(prefix) + 1) :
                     k \in KeysUnder(objects, handles[h].bucketName, prefix)}
    IN UNION {{SubSeq(r, 1, i - 1) : i \in {j \in 1..Len(r) : r[j] = Slash}} : r \in rests}

-----------------------------------------------------------------------------
(* Claims *)

\* the document with its id field set to id, as a mapping
WithId(doc, id) ==
    [f \in FieldNames(doc) \cup {"id"} |-> IF f = "id" THEN StrV(id) ELSE AsMap(doc)[f]]

CarriesId(doc) == HasId(doc) /\ IdOf(doc) # EmptyString

\* C1: when uploadDBDocument has returned an id for a document that carries
\* no id or an empty one, getDBDocumentData of that id returns the document's
\* fields and an id field equal to the returned id.
C1_RoundTrip ==
    \A t \in Tasks :
        LET task == tasks[t] IN
        (Succeeded(task, "uploadDBDocument") /\ ~CarriesId(task.args.document)) =>
            /\ DataNow(task.h, task.out.val).status = "ok"
            /\ AsMap(DataNow(task.h, task.out.val).val)
                   = WithId(task.args.document, task.out.val)

C1_Witness ==
    \E t \in Tasks :
        /\ Succeeded(tasks[t], "uploadDBDocument")
        /\ tasks[t].args.document = DocWithEmptyId

\* C2: when uploadDBDocument has returned for a document that carries the id
\* X, it has returned X and getDBDocumentData(X) returns exactly that
\* document, whatever was stored at X before; and uploading a document whose
\* body is already the stored one leaves the storage as it was.
C2_Overwrite ==
    \A t \in Tasks :
        LET task == tasks[t]
            doc == task.args.document
            at == <<handles[task.h].bucketName,
                    CollectionKey(handles[task.h], DataKey(IdOf(doc)))>>
        IN
        (Succeeded(task, "uploadDBDocument") /\ CarriesId(doc)) =>
            /\ task.out.val = IdOf(doc)
            /\ DataNow(task.h, IdOf(doc)).status = "ok"
            /\ AsMap(DataNow(task.h, IdOf(doc)).val) = AsMap(doc)
            /\ (at \in DOMAIN task.before.objects
                  /\ task.before.objects[at] = objects[at]) => objects = task.before.objects

\* an upload has replaced a stored document that had a field the new one
\* has not
C2_Witness ==
    \E t \in Tasks :
        LET task == tasks[t]
            at == <<handles[task.h].bucketName,
                    CollectionKey(handles[task.h], DataKey(<<"a">>))>>
        IN
        /\ Succeeded(task, "uploadDBDocument")
        /\ task.args.document = OtherDocWithId(<<"a">>)
        /\ at \in DOMAIN task.before.objects
        /\ task.before.objects[at].body = JsonStringify(DocWithId(<<"a">>))

\* C3 as stated: getDBDocumentIds returns exactly the ids X for which an
\* object exists under `${collectionName}/X/`, each once.
C3_ListsEveryId ==
    \A h \in Handles, o \in BOOLEAN :
        Bound(h) =>
            /\ IdsNow(h, o).status = "ok"
            /\ Range(IdsNow(h, o).val) = IdsWithObjects(h)
            /\ NoDuplicates(IdsNow(h, o).val)

\* C3, amended: getDBDocumentIds returns exactly the ids X without "/" for
\* which an object exists under `${collectionName}/X/`, each once, however
\* many objects there are under it.
C3_ListsIdsWithoutSlash ==
    \A h \in Handles, o \in BOOLEAN :
        Bound(h) =>
            /\ IdsNow(h, o).status = "ok"
            /\ Range(IdsNow(h, o).val) = {X \in IdsWithObjects(h) : Slash \notin Range(X)}
            /\ NoDuplicates(IdsNow(h, o).val)

\* getDBDocumentIds has returned an id that has three objects or more
C3_Witness ==
    \E t \in Tasks :
        /\ Succeeded(tasks[t], "getDBDocumentIds")
        /\ \E i \in 1..Len(tasks[t].out.val) :
              Cardinality(KeysUnder(objects, handles[tasks[t].h].bucketName,
                                    DocumentPrefix(tasks[t].h, tasks[t].out.val[i]))) >= 3

\* C4: when deleteDBDocumentById(id) has succeeded, it has listed every
\* object that was under `${collectionName}/${id}/`, none of them is left,
\* and getDBDocumentIds no longer returns the id.
C4_DeleteRemovesAll ==
    \A t \in Tasks :
        LET task == tasks[t]
            bucket == handles[task.h].bucketName
            prefix == DocumentPrefix(task.h, task.args.id)
        IN
        Succeeded(task, "deleteDBDocumentById") =>
            /\ Range(task.listed) = KeysUnder(task.before.objects, bucket, prefix)
            /\ Len(task.listed) >= 1
            /\ KeysUnder(objects, bucket, prefix) = {}
            /\ \A o \in BOOLEAN : task.args.id \notin Range(IdsNow(task.h, o).val)

\* a delete has removed a folder placeholder, a body and a media file
C4_Witness ==
    \E t \in Tasks :
        /\ Succeeded(tasks[t], "deleteDBDocumentById")
        /\ Len(tasks[t].listed) >= 3

\* C5: when deleteDBDocumentById(id) is over for an id that had no object
\* under `${collectionName}/${id}/`, it has failed, with "No objects found"
\* unless the listing itself failed, it has issued no delete request, and
\* the storage is as it was.
C5_DeleteOfNothingFails ==
    \A t \in Tasks :
        LET task == tasks[t]
            bucket == handles[task.h].bucketName
            prefix == DocumentPrefix(task.h, task.args.id)
        IN
        (task.op = "deleteDBDocumentById" /\ Finished(task)
            /\ KeysUnder(task.before.objects, bucket, prefix) = {}) =>
            /\ \/ task.out.status = "No objects found"
               \/ task.out.status = "StorageError" /\ task.listed = <<>>
            /\ \A i \in 1..Len(task.reqs) : task.reqs[i].kind = "listObjects"
            /\ objects = task.before.objects

C5_Witness ==
    \E t \in Tasks :
        /\ tasks[t].op = "deleteDBDocumentById"
        /\ Finished(tasks[t])
        /\ tasks[t].out.status = "No objects found"
        /\ tasks[t].args.id = <<"a", Slash, "b">>

\* C6: when uploadDBDocumentMedia(id, files) has succeeded, getDBDocumentMedia(id)
\* returns an entry for every file whose name is not data.json.
C6_MediaListsUploadedFiles ==
    \A t \in Tasks :
        LET task == tasks[t] IN
        Succeeded(task, "uploadDBDocumentMedia") =>
            \A o \in BOOLEAN, i \in 1..Len(task.args.media) :
                task.args.media[i].name # DataJson =>
                    \E e \in Range(MediaNow(task.h, task.args.id, o).val) :
                        e \in {task.args.media[i].name,
                               DocumentPrefix(task.h, task.args.id) \o task.args.media[i].name}

PublicOperations ==
    {"getDBDocumentIds", "getDBDocumentData", "getDBDocumentMedia", "getDBDocumentUrl",
     "uploadDBDocument", "uploadDBDocumentMedia", "uploadDBDocumentWithMedia",
     "deleteDBDocumentById", "deleteDBDocumentMedia"}

\* C8: a call of a public operation on a handle whose bucket or collection
\* is not bound is over at once, has failed a precondition check and has
\* issued no request.
C8_UnboundOperationsFail ==
    \A t \in Tasks :
        LET task == tasks[t] IN
        (task.op \in PublicOperations
            /\ ~(Truthy(handles[task.h].bucketName)
                   /\ Truthy(handles[task.h].collectionName))) =>
            /\ Finished(task)
            /\ task.out.status \in {"Invalid bucketName", "Invalid collectionName"}
            /\ task.reqs = <<>>

RequestKinds(task) == [i \in 1..Len(task.reqs) |-> task.reqs[i].kind]

\* C9: a handle that initialize has returned has its bucket and collection
\* bound; initialize returns it only when every step has succeeded, the
\* bucket exists and the collection has an object; a handle is not the
\* caller's while initialize runs, and there is none when initialize failed.
C9_InitializeReturnsBoundHandle ==
    /\ \A h \in Handles :
          (handles[h].variant = "factory" /\ handles[h].exposed) => Bound(h)
    /\ \A t \in Tasks :
          LET task == tasks[t]
              hd == handles[task.h]
          IN
          task.op = "initialize" =>
              IF ~Finished(task) THEN ~hd.exposed
              ELSE IF task.out.status = "ok"
              THEN /\ task.out.val = task.h
                   /\ hd.exposed
                   /\ hd.bucketName = task.args.bucketName
                   /\ hd.collectionName = task.args.collectionName
                   /\ hd.bucketName \in buckets
                   /\ KeysUnder(objects, hd.bucketName, Append(hd.collectionName, Slash)) # {}
                   /\ RequestKinds(task) \in
                          {<<"listBuckets", "listObjectsV2">>,
                           <<"listBuckets", "createBucket", "listObjectsV2">>,
                           <<"listBuckets", "listObjectsV2", "putObject">>,
                           <<"listBuckets", "createBucket", "listObjectsV2", "putObject">>}
              ELSE /\ task.out.status = "StorageError"
                   /\ hd = NoHandle

\* initialize has failed at its last step, the write of the placeholder
C9_Witness ==
    \E t \in Tasks :
        /\ tasks[t].op = "initialize"
        /\ Finished(tasks[t])
        /\ tasks[t].out.status = "StorageError"
        /\ Len(tasks[t].reqs) = 4

\* the folder names at the root of a bucket
RootPrefixes(objs, bucket) ==
    {SplitFirst(k, Slash) : k \in {x \in KeysUnder(objs, bucket, <<>>) : Slash \in Range(x)}}

\* another handle is bound to the bucket and collection the call names
SecondInitialize(task) ==
    \E g \in Handles :
        /\ g # task.h
        /\ handles[g].variant = "factory"
        /\ Bound(g)
        /\ handles[g].bucketName = task.args.bucketName
        /\ handles[g].collectionName = task.args.collectionName

Creates(task) == {i \in 1..Len(task.reqs) : task.reqs[i].kind \in {"createBucket", "putObject"}}

\* what C10 says of every collection name and the amended claim says of
\* the names in Names only
AutoCreate(Names) ==
    \A t \in Tasks :
        LET task == tasks[t]
            b == task.args.bucketName
            c == task.args.collectionName
        IN
        Succeeded(task, "initialize") =>
            /\ ("createBucket" \in Range(RequestKinds(task))) <=> (b \notin task.before.buckets)
            /\ ("putObject" \in Range(RequestKinds(task)))
                   <=> (c \notin RootPrefixes(task.before.objects, b))
            /\ \A i \in 1..Len(task.reqs) :
                   task.reqs[i].kind = "putObject" =>
                       /\ task.reqs[i].key = Append(c, Slash)
                       /\ task.reqs[i].body = <<>>
            /\ b \in buckets
            /\ c \in Names => c \in RootPrefixes(objects, b)
            /\ (c \in Names /\ SecondInitialize(task)) =>
                   /\ Creates(task) = {}
                   /\ objects = task.before.objects
                   /\ buckets = task.before.buckets

\* C10 as stated, for every collection name.
C10_AutoCreate == AutoCreate(InitCollectionNames)

\* C10, amended: as stated for collection names without "/".  (For a name
\* with "/" the placeholder is written by every initialize.)
C10_AutoCreateWithoutSlash ==
    AutoCreate({c \in InitCollectionNames : Slash \notin Range(c)})

\* a second initialize of the same bucket and collection has succeeded
C10_Witness ==
    \E t \in Tasks :
        /\ Succeeded(tasks[t], "initialize")
        /\ SecondInitialize(tasks[t])
        /\ Slash \notin Range(tasks[t].args.collectionName)

-----------------------------------------------------------------------------
(* Configuration: getS3dbConfig *)

ConfigParameters == {"awsRegion", "awsAccessKeyId", "awsSecretAccessKey"}

\* the environment variable behind each parameter
EnvironmentVariable ==
    [awsRegion |-> "S3_DB_REGION", awsAccessKeyId |-> "S3_DB_ACCESS_KEY_ID",
     awsSecretAccessKey |-> "S3_DB_SECRET_ACCESS_KEY"]

\* {}: an object without any of the parameters
EmptyObject == [p \in ConfigParameters |-> Undefined]

\* the argument of a call: none, or an object in which each parameter is
\* unset, the empty string or some text
ConfigArguments ==
    {[given |-> FALSE, value |-> EmptyObject]}
        \cup {[given |-> TRUE, value |-> v] :
                  v \in [ConfigParameters -> {Undefined, EmptyString, <<"p">>}]}

\* process.env: each variable unset, empty or some text
Environments ==
    [{EnvironmentVariable[p] : p \in ConfigParameters} -> {Undefined, EmptyString, <<"e">>}]

\* args || {}
OrEmptyObject(args) == IF args.given THEN args.value ELSE EmptyObject

\* as Default, but the fallback wins when it is set
Default_FallbackFirst(value, fallback) == IF fallback = Undefined THEN value ELSE fallback

\* a destructuring default: `name = fallback` takes the fallback when the
\* property is undefined
Default(value, fallback) == IF value = Undefined THEN fallback ELSE value

getS3dbConfigResult(args, env) ==
    LET o == OrEmptyObject(args)
        awsRegion == Default(o.awsRegion, env.S3_DB_REGION)
        awsAccessKeyId == Default(o.awsAccessKeyId, env.S3_DB_ACCESS_KEY_ID)
        awsSecretAccessKey == Default(o.awsSecretAccessKey, env.S3_DB_SECRET_ACCESS_KEY)
    IN IF Truthy(awsRegion) /\ Truthy(awsAccessKeyId) /\ Truthy(awsSecretAccessKey)
       THEN [status |-> "ok",
             val |-> [region |-> awsRegion,
                      credentials |-> [accessKeyId |-> awsAccessKeyId,
                                       secretAccessKey |-> awsSecretAccessKey]]]
       ELSE [status |-> "AWS credentials are missing or invalid", val |-> <<>>]

\* getS3dbConfig(args) in a process whose environment is env
getS3dbConfig(t, args, env) ==
    /\ FreeSlot(t)
    /\ tasks' = StartIn(t, Settle(Call("getS3dbConfig", 0, [args |-> args, env |-> env]),
                                  getS3dbConfigResult(args, env)))
    /\ UNCHANGED <<buckets, objects, handles, uuids>>

NextConfig ==
    \/ \E t \in Tasks, args \in ConfigArguments, env \in Environments :
           Sequential /\ getS3dbConfig(t, args, env)
    \/ \E t \in Tasks : Return(t)

SpecConfig == Init /\ [][NextConfig]_vars

\* what the call has to work with for parameter p: the explicit parameter
\* when one is given, otherwise the environment variable
Resolved(task, p) ==
    IF task.args.args.given /\ task.args.args.value[p] # Undefined
    THEN task.args.args.value[p]
    ELSE task.args.env[EnvironmentVariable[p]]

\* C11: getS3dbConfig resolves each parameter as the explicit one when
\* given, else the environment variable; it fails, without any storage
\* request, exactly when a resolved value is absent or empty, and otherwise
\* returns exactly the three resolved values.
C11_ConfigResolution ==
    \A t \in Tasks :
        LET task == tasks[t] IN
        task.op = "getS3dbConfig" =>
            /\ Finished(task)
            /\ task.reqs = <<>>
            /\ (task.out.status # "ok")
                   <=> (\E p \in ConfigParameters :
                           Resolved(task, p) \in {Undefined, EmptyString})
            /\ task.out.status # "ok" =>
                   task.out.status = "AWS credentials are missing or invalid"
            /\ task.out.status = "ok" =>
                   task.out.val =
                       [region |-> Resolved(task, "awsRegion"),
                        credentials |->
                            [accessKeyId |-> Resolved(task, "awsAccessKeyId"),
                             secretAccessKey |-> Resolved(task, "awsSecretAccessKey")]]

\* a call has succeeded with the region given explicitly, over a different
\* one in the environment, and the keys taken from the environment
C11_Witness ==
    \E t \in Tasks :
        /\ Succeeded(tasks[t], "getS3dbConfig")
        /\ tasks[t].args.args.given
        /\ tasks[t].args.args.value.awsRegion = <<"p">>
        /\ tasks[t].args.env.S3_DB_REGION = <<"e">>
        /\ tasks[t].args.args.value.awsAccessKeyId = Undefined
        /\ tasks[t].out.val.credentials.accessKeyId = <<"e">>

-----------------------------------------------------------------------------
(* Claims about the order and the extent of what the operations write *)

\* the positions, among the requests of a call, of its media writes
MediaWrites(task) ==
    {i \in 1..Len(task.reqs) :
        task.reqs[i].kind = "putObject" /\ task.reqs[i].contentType # Undefined}

\* the positions of its writes of the document body
DataWrites(task) ==
    {i \in 1..Len(task.reqs) :
        /\ task.reqs[i].kind = "putObject"
        /\ task.reqs[i].contentType = Undefined
        /\ task.reqs[i].key = CollectionKey(handles[task.h], DataKey(task.id))}

NoObject == [exists |-> FALSE, body |-> <<>>, contentType |-> <<>>]

StoredObject(body, contentType) ==
    [exists |-> TRUE, body |-> body, contentType |-> contentType]

\* what a key holds: an object, or none
ObjectAt(objs, bucket, key) ==
    IF <<bucket, key>> \in DOMAIN objs
    THEN StoredObject(objs[<<bucket, key>>].body, objs[<<bucket, key>>].contentType)
    ELSE NoObject

FileNames(media) == {media[i].name : i \in 1..Len(media)}

\* what C12 says of uploadDBDocumentWithMedia, the statement about the
\* document staying readable being made for the media lists whose file
\* names are all in Names
DocumentBeforeMedia(Names) ==
    \A t \in Tasks :
        LET task == tasks[t]
            hd == handles[task.h]
        IN
        task.op = "uploadDBDocumentWithMedia" =>
            /\ MediaWrites(task) # {} =>
                   /\ DataWrites(task) # {}
                   /\ \A i \in MediaWrites(task), j \in DataWrites(task) : j < i
                   /\ task.pc \in {"media", "done"}
            /\ MediaWrites(task) = {} =>
                   \A i \in 1..Len(task.args.media) :
                       LET key == CollectionKey(hd, task.id \o <<Slash>> \o task.args.media[i].name)
                       IN (key # CollectionKey(hd, DataKey(task.id))) =>
                              ObjectAt(objects, hd.bucketName, key)
                                  = ObjectAt(task.before.objects, hd.bucketName, key)
            /\ Succeeded(task, "uploadDBDocumentWithMedia") =>
                   /\ task.out.val = task.id
                   /\ \A i \in 1..Len(task.args.media) :
                          <<hd.bucketName,
                            CollectionKey(hd, task.id \o <<Slash>> \o task.args.media[i].name)>>
                              \in DOMAIN objects
            /\ (Finished(task) /\ task.out.status # "ok" /\ MediaWrites(task) # {}
                   /\ FileNames(task.args.media) \subseteq Names) =>
                   /\ DataNow(task.h, task.id).status = "ok"
                   /\ AsMap(DataNow(task.h, task.id).val) = WithId(task.args.document, task.id)

MediaFileNames == {f.name : f \in Files}

\* C12 as stated, for every list of files.
C12_DocumentBeforeMedia == DocumentBeforeMedia(MediaFileNames)

\* C12, amended: as stated, the document staying readable after a failed
\* media write being claimed for files not named data.json.
C12_DocumentBeforeOtherMedia == DocumentBeforeMedia(MediaFileNames \ {DataJson})

\* a media write has failed after the document was written, and the
\* document is readable
C12_Witness ==
    \E t \in Tasks :
        /\ tasks[t].op = "uploadDBDocumentWithMedia"
        /\ Finished(tasks[t])
        /\ tasks[t].out.status = "StorageError"
        /\ MediaWrites(tasks[t]) # {}
        /\ DataJson \notin FileNames(tasks[t].args.media)
        /\ DataNow(tasks[t].h, tasks[t].id).status = "ok"

\* the keys `${collectionName}/${id}/${name}` of the names a call was given
NamedKeys(task) ==
    {handles[task.h].collectionName \o <<Slash>> \o task.args.id \o <<Slash>>
         \o task.args.mediaNames[i] : i \in 1..Len(task.args.mediaNames)}

\* C13: deleteDBDocumentMedia(id, names) issues nothing but one delete of
\* exactly the keys `${collectionName}/${id}/${name}`; a name without an
\* object makes no error; when the call has succeeded the named keys have
\* no object and every other object is as the call found it, and until
\* then every object is.
C13_DeleteMediaOnly ==
    \A t \in Tasks :
        LET task == tasks[t]
            bucket == handles[task.h].bucketName
        IN
        task.op = "deleteDBDocumentMedia" =>
            /\ Len(task.reqs) = 1
            /\ task.reqs[1].kind = "deleteObjects"
            /\ task.reqs[1].bucket = bucket
            /\ Range(task.reqs[1].keys) = NamedKeys(task)
            /\ Len(task.reqs[1].keys) = Len(task.args.mediaNames)
            /\ task.out.status \in {"pending", "ok", "StorageError"}
            /\ IF task.out.status = "ok"
               THEN /\ DOMAIN objects
                          = DOMAIN task.before.objects \ {<<bucket, k>> : k \in NamedKeys(task)}
                    /\ \A bk \in DOMAIN objects : objects[bk] = task.before.objects[bk]
               ELSE objects = task.before.objects

\* a call has succeeded that named an object which existed and one which
\* did not
C13_Witness ==
    \E t \in Tasks :
        /\ Succeeded(tasks[t], "deleteDBDocumentMedia")
        /\ \E k \in NamedKeys(tasks[t]) :
               <<handles[tasks[t].h].bucketName, k>> \in DOMAIN tasks[t].before.objects
        /\ \E k \in NamedKeys(tasks[t]) :
               <<handles[tasks[t].h].bucketName, k>> \notin DOMAIN tasks[t].before.objects
        /\ DOMAIN objects # {}

-----------------------------------------------------------------------------
(* Fresh ids: uploads and deletions by one caller, with more than one     *)
(* value drawn from uuid()                                                 *)

NextFresh ==
    \/ \E t \in Tasks, b \in BucketNames, c \in CollectionNames :
           Sequential /\ initialize(t, 1, b, c)
    \/ \E t \in Tasks, d \in Documents :
           Sequential /\ UuidsLeft(1, d, MaxFreshUuids) /\ uploadDBDocument(t, 1, d)
    \/ \E t \in Tasks, id \in KnownIds : Sequential /\ deleteDBDocumentById(t, 1, id)
    \/ \E t \in Tasks :
           \/ ListBucketsDone(t)
           \/ CreateBucketDone(t)
           \/ \E o \in BOOLEAN : ListRootDone(t, o)
           \/ PutCollectionDone(t)
           \/ PutFolderDone(t)
           \/ PutDataDone(t)
           \/ \E o \in BOOLEAN : ListObjectsDone(t, o)
           \/ DeleteObjectsDone(t)
           \/ StorageFailure(t)
           \/ Return(t)

SpecFresh == Init /\ [][NextFresh]_vars

\* the keys of the bucket, before or after a call
AllKeys(task) ==
    KeysUnder(objects, handles[task.h].bucketName, <<>>)
        \cup KeysUnder(task.before.objects, handles[task.h].bucketName, <<>>)

\* C14: the id that uploadDBDocument takes for a document without an id was
\* not returned before, was not an id of the caller and had no object under
\* its prefix; every object outside `${collectionName}/${id}/` is as the
\* call found it, and inside are at most the folder and the body.
C14_FreshId ==
    \A t \in Tasks :
        LET task == tasks[t]
            hd == handles[task.h]
            prefix == DocumentPrefix(task.h, task.id)
        IN
        (task.op = "uploadDBDocument" /\ ~CarriesId(task.args.document)
            /\ task.out.status # "Invalid bucketName"
            /\ task.out.status # "Invalid collectionName") =>
            /\ task.id \notin UserIds \cup {Uuid(n) : n \in 1..task.before.uuids}
            /\ KeysUnder(task.before.objects, hd.bucketName, prefix) = {}
            /\ \A id \in IdsWithObjects(task.h) \ {task.id} :
                   ~StartsWith(prefix, DocumentPrefix(task.h, id))
            /\ \A k \in AllKeys(task) :
                   IF StartsWith(k, prefix)
                   THEN k \in {prefix, CollectionKey(hd, DataKey(task.id))}
                   ELSE ObjectAt(objects, hd.bucketName, k)
                            = ObjectAt(task.before.objects, hd.bucketName, k)
            /\ Succeeded(task, "uploadDBDocument") => task.out.val = task.id

\* a second document without an id has been uploaded while the first is
\* still stored
C14_Witness ==
    \E t \in Tasks :
        /\ Succeeded(tasks[t], "uploadDBDocument")
        /\ ~CarriesId(tasks[t].args.document)
        /\ tasks[t].out.val = Uuid(2)
        /\ KeysUnder(tasks[t].before.objects, handles[tasks[t].h].bucketName,
                     DocumentPrefix(tasks[t].h, Uuid(1))) # {}

\* the write of the i-th file of a call of uploadDBDocumentMedia
FileWrite(task, i) ==
    [kind |-> "putObject", bucket |-> handles[task.h].bucketName,
     key |-> handles[task.h].collectionName \o <<Slash>> \o task.args.id \o <<Slash>>
                \o task.args.media[i].name,
     body |-> task.args.media[i].content,
     contentType |-> <<"image", Slash>> \o SplitSecond(task.args.media[i].name, Dot)]

\* C15: uploadDBDocumentMedia(id, files) has issued, from its start, exactly
\* one write per file to `${collectionName}/${id}/${file.name}`; it has
\* succeeded only when every write has; it has failed as soon as one write
\* has; every write that has succeeded has left its file, whether or not
\* another has failed, and every other file's key is as the call found it.
C15_ConcurrentMediaWrites ==
    \A t \in Tasks :
        LET task == tasks[t]
            n == Len(task.args.media)
        IN
        task.op = "uploadDBDocumentMedia" =>
            /\ task.reqs = [i \in 1..n |-> FileWrite(task, i)]
            /\ task.pending \cup task.failed \subseteq 1..n
            /\ task.out.status = "ok" <=> (task.pending = {} /\ task.failed = {})
            /\ task.pending # {} /\ task.failed = {} => task.out.status = "pending"
            /\ task.failed # {} => task.out.status = "StorageError"
            /\ \A i \in 1..n :
                   ObjectAt(objects, FileWrite(task, i).bucket, FileWrite(task, i).key)
                       = IF i \in task.pending \cup task.failed
                         THEN ObjectAt(task.before.objects, FileWrite(task, i).bucket,
                                       FileWrite(task, i).key)
                         ELSE StoredObject(FileWrite(task, i).body,
                                           FileWrite(task, i).contentType)

\* the call has failed with its first write, and its second write has left
\* a file that was not there
C15_Witness ==
    \E t \in Tasks :
        /\ tasks[t].op = "uploadDBDocumentMedia"
        /\ tasks[t].out.status = "StorageError"
        /\ tasks[t].failed = {1}
        /\ tasks[t].pending = {}
        /\ Len(tasks[t].args.media) = 2
        /\ ObjectAt(tasks[t].before.objects, FileWrite(tasks[t], 2).bucket,
                    FileWrite(tasks[t], 2).key) = NoObject
        /\ ObjectAt(objects, FileWrite(tasks[t], 2).bucket, FileWrite(tasks[t], 2).key)
               # NoObject

\* C16: a listing response without its Contents, its CommonPrefixes or both
\* gives what one with empty sections gives, never an error:
\* getDBDocumentIds and getDBDocumentMedia fail only when the storage call
\* does, and in a collection without an object under any id
\* getDBDocumentIds returns the empty list.
C16_MissingSectionsAreEmpty ==
    /\ \A t \in Tasks :
          (tasks[t].op \in {"getDBDocumentIds", "getDBDocumentMedia"} /\ Finished(tasks[t]))
              => tasks[t].out.status \in {"ok", "StorageError"}
    /\ \A h \in Handles :
          (Bound(h) /\ handles[h].variant = "factory") =>
              /\ IdsNow(h, TRUE).status = "ok"
              /\ IdsNow(h, TRUE) = IdsNow(h, FALSE)
              /\ \A id \in KnownIds \cup FolderIds :
                     /\ MediaNow(h, id, TRUE).status = "ok"
                     /\ MediaNow(h, id, TRUE) = MediaNow(h, id, FALSE)
              /\ IdsWithObjects(h) = {} => IdsNow(h, TRUE).val = <<>>

\* the only document has been deleted, the collection holds its placeholder
\* only, and a listing without sections gives no ids
C16_Witness ==
    \E t \in Tasks :
        /\ Succeeded(tasks[t], "deleteDBDocumentById")
        /\ KeysUnder(objects, handles[tasks[t].h].bucketName, <<>>)
               = {Append(handles[tasks[t].h].collectionName, Slash)}
        /\ ~ListObjectsV2(handles[tasks[t].h].bucketName,
                          Append(handles[tasks[t].h].collectionName, Slash),
                          TRUE).CommonPrefixes.present
        /\ IdsNow(tasks[t].h, TRUE) = [status |-> "ok", val |-> <<>>]

-----------------------------------------------------------------------------
(* The constructor variant beside a store that exists: one handle is made  *)
(* by initialize and fills the collection, the other by the constructor    *)
(* once the bucket exists and the collection holds an object               *)

\* the bucket exists and an object exists under `${collectionName}/`
CollectionExists(bucketName, collectionName) ==
    /\ bucketName \in buckets
    /\ KeysUnder(objects, bucketName, Append(collectionName, Slash)) # {}

\* the storage service answers a request of the constructor's verification
VerificationStep(t) ==
    /\ tasks[t].op = "constructor"
    /\ \/ ListBucketsDone(t)
       \/ \E o \in BOOLEAN : ListRootDone(t, o)

NextConstructor ==
    \/ \E t \in Tasks, b \in BucketNames, c \in CollectionNames :
           Sequential /\ initialize(t, 1, b, c)
    \/ \E t \in Tasks, d \in InitDocuments :
           Sequential /\ UuidsLeft(1, d, MaxUuids) /\ uploadDBDocument(t, 1, d)
    \/ \E t \in Tasks, b \in BucketNames, c \in CollectionNames :
           Sequential /\ CollectionExists(b, c) /\ constructor(t, 2, b, c)
    \/ \E t \in Tasks : Sequential /\ getDBDocumentIds(t, 2)
    \/ \E t \in Tasks, id \in InitIds : Sequential /\ getDBDocumentData(t, 2, id)
    \/ \E t \in Tasks : VerificationStep(t)
    \/ \E t \in Tasks :
           /\ tasks[t].op # "constructor"
           /\ \/ ListBucketsDone(t)
              \/ CreateBucketDone(t)
              \/ \E o \in BOOLEAN : ListRootDone(t, o)
              \/ PutCollectionDone(t)
              \/ PutFolderDone(t)
              \/ PutDataDone(t)
              \/ \E o \in BOOLEAN : ListIdsDone(t, o)
              \/ GetObjectDone(t)
              \/ StorageFailure(t)
    \/ \E t \in Tasks : Return(t)

\* every request of the verification is answered, and answered well
SpecConstructor ==
    Init /\ [][NextConstructor]_vars /\ \A t \in Tasks : WF_vars(VerificationStep(t))

\* C17: a handle made by the constructor while the bucket exists and the
\* collection holds an object eventually has its bucket and its collection
\* bound.
C17_ConstructorEventuallyBinds ==
    \A h \in Handles : (handles[h].variant = "constructor") ~> Bound(h)

\* what getDBDocumentData(id) would have returned when the call started
DataBefore(task, id) ==
    getObjectResult(handles[task.h].variant, task.before.objects,
                    handles[task.h].bucketName, CollectionKey(handles[task.h], DataKey(id)))

\* the names a media operation was given: of its files, or to delete
GivenNames(task) ==
    FileNames(task.args.media) \cup Range(task.args.mediaNames)

\* what C18 says of the media operations that are given names in Names
BodyUntouched(Names) ==
    \A t \in Tasks :
        LET task == tasks[t]
            hd == handles[task.h]
        IN
        (task.op \in {"uploadDBDocumentMedia", "deleteDBDocumentMedia"}
            /\ GivenNames(task) \subseteq Names) =>
            /\ ObjectAt(objects, hd.bucketName, CollectionKey(hd, DataKey(task.args.id)))
                   = ObjectAt(task.before.objects, hd.bucketName,
                              CollectionKey(hd, DataKey(task.args.id)))
            /\ DataNow(task.h, task.args.id) = DataBefore(task, task.args.id)

\* C18 as stated: for every file list and name list, uploadDBDocumentMedia
\* and deleteDBDocumentMedia leave the object at
\* `${collectionName}/${id}/data.json` and what getDBDocumentData(id)
\* returns as they were.
C18_MediaLeaveBody == BodyUntouched(MediaFileNames)

\* C18, amended: as stated, for files and names other than data.json.
C18_OtherMediaLeaveBody == BodyUntouched(MediaFileNames \ {DataJson})

\* a media file, written earlier, of a stored document has been deleted
C18_Witness ==
    \E t \in Tasks :
        /\ Succeeded(tasks[t], "deleteDBDocumentMedia")
        /\ objects # tasks[t].before.objects
        /\ DataJson \notin GivenNames(tasks[t])
        /\ DataNow(tasks[t].h, tasks[t].args.id).status = "ok"

-----------------------------------------------------------------------------
(* Calls that overlap: the caller does not await a call before the next   *)

\* the store is initialized by an awaited call; after that a call may start
\* while another is under way
NextConcurrent ==
    \/ \E t \in Tasks, b \in BucketNames, c \in CollectionNames :
           Sequential /\ initialize(t, 1, b, c)
    \/ \E t \in Tasks : getDBDocumentIds(t, 1)
    \/ \E t \in Tasks, id \in InitIds : getDBDocumentData(t, 1, id)
    \/ \E t \in Tasks, d \in InitDocuments :
           UuidsLeft(1, d, MaxUuids) /\ uploadDBDocument(t, 1, d)
    \/ \E t \in Tasks, id \in InitIds, m \in InitMediaLists :
           uploadDBDocumentMedia(t, 1, id, m)
    \/ \E t \in Tasks, id \in InitIds : deleteDBDocumentById(t, 1, id)
    \/ \E t \in Tasks, id \in InitIds, n \in InitMediaNameLists :
           deleteDBDocumentMedia(t, 1, id, n)
    \/ \E t \in Tasks :
           \/ ListBucketsDone(t)
           \/ CreateBucketDone(t)
           \/ \E o \in BOOLEAN : ListRootDone(t, o)
           \/ PutCollectionDone(t)
           \/ \E o \in BOOLEAN : ListIdsDone(t, o)
           \/ GetObjectDone(t)
           \/ PutFolderDone(t)
           \/ PutDataDone(t)
           \/ \E i \in tasks[t].pending : MediaPutDone(t, i)
           \/ \E i \in tasks[t].pending : MediaPutFailed(t, i)
           \/ \E o \in BOOLEAN : ListObjectsDone(t, o)
           \/ DeleteObjectsDone(t)
           \/ StorageFailure(t)
           \/ Return(t)

SpecConcurrent == Init /\ [][NextConcurrent]_vars

\* no call is under way
Quiet == \A t \in Tasks : Finished(tasks[t])

\* C19 as stated: when the calls made on an initialized handle are over,
\* getDBDocumentData succeeds for every id that getDBDocumentIds returns.
C19_ListedIdsHaveBody ==
    \A h \in Handles :
        (Bound(h) /\ Quiet) =>
            \A o \in BOOLEAN :
                \A id \in Range(IdsNow(h, o).val) : DataNow(h, id).status = "ok"

\* C19, amended: at every moment, whatever calls overlap or fail, every id
\* that getDBDocumentIds returns has at least one object under
\* `${collectionName}/${id}/`, and is returned once.  (The object need not
\* be the document body.)
C19_ListedIdsHaveObjects ==
    \A h \in Handles :
        Bound(h) =>
            \A o \in BOOLEAN :
                /\ IdsNow(h, o).status = "ok"
                /\ NoDuplicates(IdsNow(h, o).val)
                /\ \A id \in Range(IdsNow(h, o).val) :
                       KeysUnder(objects, handles[h].bucketName, DocumentPrefix(h, id)) # {}

\* while a deletion is under way an upload has written a document's folder
\* and failed to write its body: the id is listed and cannot be read
C19_Witness ==
    \E t, u \in Tasks :
        /\ tasks[t].op = "uploadDBDocument"
        /\ tasks[t].out.status = "StorageError"
        /\ tasks[u].op = "deleteDBDocumentById"
        /\ ~Finished(tasks[u])
        /\ tasks[t].id \in Range(IdsNow(tasks[t].h, TRUE).val)
        /\ DataNow(tasks[t].h, tasks[t].id).status # "ok"

-----------------------------------------------------------------------------
(* deleteDBDocumentById and the other documents *)

\* what listObjectsV2({Bucket, Prefix, Delimiter: "/"}) answers over objs
ListingIn(objs, bucket, prefix, omitEmpty) ==
    LET m == KeysUnder(objs, bucket, prefix) IN
    [Contents |-> Section({k \in m : RollUp(k, prefix) = <<>>}, omitEmpty),
     CommonPrefixes |-> Section({RollUp(k, prefix) : k \in m} \ {<<>>}, omitEmpty)]

\* what getDBDocumentMedia(id) returned when the call of task began
MediaBefore(task, id, omitEmpty) ==
    LET prefix == CollectionKey(handles[task.h], id)
        entries == getDBEntriesResult(handles[task.h].variant, prefix,
                                      ListingIn(task.before.objects,
                                                handles[task.h].bucketName,
                                                prefix, omitEmpty))
    IN IF entries.ok THEN [status |-> "ok", val |-> MediaOf(entries)]
       ELSE [status |-> entries.err, val |-> <<>>]

\* every id getDBDocumentData and getDBDocumentMedia are called with
ReadIds == KnownIds \cup FolderIds

\* id begins with `${x}/`
Within(id, x) == StartsWith(id, Append(x, Slash))

\* the keys at which the library stores document id: the folder
\* `${collectionName}/${id}/`, the body and the media files
StoredFor(h, id) ==
    {DocumentPrefix(h, id)}
        \cup {DocumentPrefix(h, id) \o name : name \in {DataJson} \cup MediaFileNames}

\* what C20 says of a call deleteDBDocumentById(x) and the ids Other(x, y)
DeleteLeaves(Other(_, _)) ==
    \A t \in Tasks :
        LET task == tasks[t]
            hd == handles[task.h]
            x == task.args.id
        IN
        task.op = "deleteDBDocumentById" =>
            /\ ObjectAt(objects, hd.bucketName, Append(hd.collectionName, Slash))
                   = ObjectAt(task.before.objects, hd.bucketName,
                              Append(hd.collectionName, Slash))
            /\ \A y \in {id \in ReadIds : Other(x, id)} :
                /\ \A k \in StoredFor(task.h, y) :
                       ObjectAt(objects, hd.bucketName, k)
                           = ObjectAt(task.before.objects, hd.bucketName, k)
                /\ DataNow(task.h, y) = DataBefore(task, y)
                /\ \A omitEmpty \in BOOLEAN :
                       MediaNow(task.h, y, omitEmpty) = MediaBefore(task, y, omitEmpty)

\* C20 as stated: deleteDBDocumentById(x) leaves, for every id y other
\* than x, the objects stored for y (folder, body, media files), what
\* getDBDocumentData(y) and getDBDocumentMedia(y) return, and the object at
\* `${collectionName}/`, as they were.
C20_DeleteLeavesOthers == DeleteLeaves(LAMBDA x, y : y # x)

\* C20, amended: as stated, for every id y other than x that does not
\* begin with `${x}/`.
C20_DeleteLeavesOthersOutside == DeleteLeaves(LAMBDA x, y : y # x /\ ~Within(y, x))

\* a document has been deleted while another one, with a body and not
\* within the deleted one, is stored
C20_Witness ==
    \E t \in Tasks, y \in ReadIds :
        /\ Succeeded(tasks[t], "deleteDBDocumentById")
        /\ y # tasks[t].args.id
        /\ ~Within(y, tasks[t].args.id)
        /\ DataBefore(tasks[t], y).status = "ok"
        /\ DataNow(tasks[t].h, y).status = "ok"
        /\ KeysUnder(objects, handles[tasks[t].h].bucketName,
                     DocumentPrefix(tasks[t].h, tasks[t].args.id)) = {}

=============================================================================
